---- MODULE Spec2Model ----
(***************************************************************************)
(* A model of src/code/utils.py: the vann-nett quality fetcher, the WFD    *)
(* classifier, the TEOTIL2 / TEOTIL3 result loaders and the column         *)
(* aggregator.  Every function is modelled as a small state machine whose  *)
(* program counter follows the statements of the function; the arguments   *)
(* and the outside world (HTTP response, CSV files) are drawn in Init.     *)
(*                                                                         *)
(* Python strings are TLA+ strings; TLC evaluates Len, \o and SubSeq on    *)
(* them, which is what the string methods below are built from.            *)
(* A DataFrame is a record [columns |-> sequence of names, rows |->        *)
(* sequence of functions from the column names to values].                 *)
(***************************************************************************)
EXTENDS Integers, Sequences, FiniteSets, TLC

VARIABLES
    pc,         \* position in the function being executed
    args,       \* the arguments of the call, as passed (never modified)
    env,        \* the outside world the call reads (HTTP server, CSV files)
    loc,        \* the local variables of the function
    ret,        \* outcome: pending, a returned value, or a raised exception
    requests,   \* the URLs requests.get was called with, in order
    printed,    \* the lines written with print(), in order
    callerDf    \* the DataFrame object the caller passed to aggregate_parameters

vars == <<pc, args, env, loc, ret, requests, printed, callerDf>>

Null == "NaN"

Pending == [kind |-> "pending"]
Return(v) == [kind |-> "return", val |-> v]
Raise(e) == [kind |-> "raise", exc |-> e]

NoLoc == [none |-> TRUE]

(***************************************************************************)
(* Python string methods.                                                  *)
(***************************************************************************)
Char(s, i) == SubSeq(s, i, i)

Suffix(s, i) == SubSeq(s, i, Len(s))

UPPER == "ABCDEFGHIJKLMNOPQRSTUVWXYZ"
LOWER == "abcdefghijklmnopqrstuvwxyz"

LowerChar(c) ==
    IF \E i \in 1..Len(UPPER) : Char(UPPER, i) = c
    THEN Char(LOWER, CHOOSE i \in 1..Len(UPPER) : Char(UPPER, i) = c)
    ELSE c

RECURSIVE str_lower(_)
str_lower(s) ==
    IF Len(s) = 0 THEN s ELSE LowerChar(Char(s, 1)) \o str_lower(Suffix(s, 2))

startswith_at(s, i, sub) ==
    /\ i + Len(sub) - 1 <= Len(s)
    /\ SubSeq(s, i, i + Len(sub) - 1) = sub

endswith(s, sub) ==
    /\ Len(sub) <= Len(s)
    /\ SubSeq(s, Len(s) - Len(sub) + 1, Len(s)) = sub

\* s.split(sep) for a non-empty separator: always at least one piece.
RECURSIVE str_split(_, _)
str_split(s, sep) ==
    IF \E j \in 1..Len(s) : startswith_at(s, j, sep)
    THEN LET j == CHOOSE k \in 1..Len(s) :
                    /\ startswith_at(s, k, sep)
                    /\ \A m \in 1..(k - 1) : ~startswith_at(s, m, sep)
         IN  <<SubSeq(s, 1, j - 1)>> \o str_split(Suffix(s, j + Len(sep)), sep)
    ELSE <<s>>

\* s.replace(old, new): every non-overlapping occurrence, left to right.
RECURSIVE str_replace(_, _, _)
str_replace(s, old, new) ==
    IF Len(s) = 0 THEN s
    ELSE IF startswith_at(s, 1, old)
         THEN new \o str_replace(Suffix(s, Len(old) + 1), old, new)
         ELSE Char(s, 1) \o str_replace(Suffix(s, 2), old, new)

DIGITS == "0123456789"

IsDigit(c) == \E i \in 1..Len(DIGITS) : Char(DIGITS, i) = c

DigitVal(c) == (CHOOSE i \in 1..Len(DIGITS) : Char(DIGITS, i) = c) - 1

RECURSIVE DecimalVal(_)
DecimalVal(s) ==
    IF Len(s) = 0 THEN 0
    ELSE 10 * DecimalVal(SubSeq(s, 1, Len(s) - 1)) + DigitVal(Char(s, Len(s)))

\* float(tok) on the tokens the model feeds it: a run of digits, optionally
\* followed by ".0", is that number; anything else here ("" or a word) is
\* not a number and float raises ValueError.
FloatBody(tok) == IF endswith(tok, ".0") THEN SubSeq(tok, 1, Len(tok) - 2) ELSE tok

IsFloat(tok) ==
    /\ Len(FloatBody(tok)) > 0
    /\ \A i \in 1..Len(FloatBody(tok)) : IsDigit(Char(FloatBody(tok), i))

float(tok) == DecimalVal(FloatBody(tok))

(***************************************************************************)
(* get_wfd_class(boundary_str, value)                                      *)
(***************************************************************************)
MaxTokens == 5
MaxValue == 11

\* The numerals boundary strings are made of, and the numbers they spell.
BoundaryNumerals == <<"1", "3.0", "5", "10">>
BoundaryNumbers == <<1, 3, 5, 10>>

TokenSeqs == UNION {[1..n -> 1..Len(BoundaryNumerals)] : n \in 1..MaxTokens}

\* Strings with a token that is not a number.
MalformedBoundaryStrs == {"", "x", "1;x;5;10", "1;3.0;5;10;"}

RECURSIVE str_join(_, _)
str_join(sep, parts) ==
    IF Len(parts) = 0 THEN ""
    ELSE IF Len(parts) = 1 THEN parts[1]
    ELSE parts[1] \o sep \o str_join(sep, Tail(parts))

BoundaryStr(ts) == str_join(";", [i \in 1..Len(ts) |-> BoundaryNumerals[ts[i]]])

class_names == <<"High", "Good", "Moderate", "Poor", "Bad">>

\* env.given remembers the numbers the caller wrote into the string
\* (<<>> for a malformed string); the function never reads it.
WfdInit ==
    /\ pc = "wfd_parse"
    /\ \E v \in 0..MaxValue :
          \/ \E ts \in TokenSeqs :
                /\ args = [boundary_str |-> BoundaryStr(ts), value |-> v]
                /\ env = [given |-> [i \in 1..Len(ts) |-> BoundaryNumbers[ts[i]]]]
          \/ \E s \in MalformedBoundaryStrs :
                /\ args = [boundary_str |-> s, value |-> v]
                /\ env = [given |-> <<>>]
    /\ loc = NoLoc
    /\ ret = Pending
    /\ requests = <<>>
    /\ printed = <<>>
    /\ callerDf = NoLoc

\* boundaries = list(map(float, boundary_str.split(";")))
WfdParse ==
    /\ pc = "wfd_parse"
    /\ LET toks == str_split(args.boundary_str, ";")
       IN  \/ /\ \E i \in 1..Len(toks) : ~IsFloat(toks[i])
              /\ ret' = Raise("ValueError")
              /\ pc' = "done"
              /\ loc' = loc
           \/ /\ \A i \in 1..Len(toks) : IsFloat(toks[i])
              /\ loc' = [boundaries |-> [i \in 1..Len(toks) |-> float(toks[i])]]
              /\ pc' = "wfd_classify"
              /\ ret' = ret
    /\ UNCHANGED <<args, env, requests, printed, callerDf>>

\* The if / elif chain.  Test k (0-based) is `value < boundaries[0]` for
\* k = 0 and `boundaries[k-1] <= value < boundaries[k]` for k = 1..3; with
\* 1-based sequences boundaries[k] is b[k + 1].
WfdCondClosed(b, v, k) ==
    IF k = 0 THEN v <= b[1] ELSE b[k] <= v /\ v <= b[k + 1]

WfdCond(b, v, k) ==
    IF k = 0 THEN v < b[1] ELSE b[k] <= v /\ v < b[k + 1]

\* The highest 1-based index test k evaluates: Python's chained comparison
\* reads boundaries[k] only when boundaries[k-1] <= value.
WfdNeedsIndex(b, v, k) ==
    IF k = 0 THEN 1 ELSE IF b[k] <= v THEN k + 1 ELSE k

Min(a, b) == IF a <= b THEN a ELSE b

WfdChainClamped(b, v, k) ==
    LET n == Min(4, Len(b))
    IN  IF \E j \in 1..n : v < b[j]
        THEN Return(class_names[CHOOSE j \in 1..n :
                        v < b[j] /\ \A i \in 1..(j - 1) : ~(v < b[i])])
        ELSE Return(class_names[5])

\* The outcome of the chain from test k on.  Indexing past the end of the
\* list raises IndexError; the final else returns 'Bad'.
RECURSIVE WfdChain(_, _, _)
WfdChain(b, v, k) ==
    IF k = 4 THEN Return(class_names[5])
    ELSE IF (k > 0 /\ k > Len(b)) \/ WfdNeedsIndex(b, v, k) > Len(b)
         THEN Raise("IndexError")
    ELSE IF WfdCond(b, v, k) THEN Return(class_names[k + 1])
    ELSE WfdChain(b, v, k + 1)

WfdClassify ==
    /\ pc = "wfd_classify"
    /\ ret' = WfdChain(loc.boundaries, args.value, 0)
    /\ pc' = "done"
    /\ UNCHANGED <<args, env, loc, requests, printed, callerDf>>

WfdNext == WfdParse \/ WfdClassify

SpecWfd == WfdInit /\ [][WfdNext]_vars

Ascending4(g) == Len(g) = 4 /\ g[1] < g[2] /\ g[2] < g[3] /\ g[3] < g[4]

\* C1: for a boundary string of four numbers b0 < b1 < b2 < b3 and any value
\* v, get_wfd_class returns exactly one label, fixed by half-open intervals:
\* High if v < b0, Good if b0 <= v < b1, Moderate if b1 <= v < b2, Poor if
\* b2 <= v < b3, Bad if v >= b3.
C1_HalfOpenIntervals ==
    (pc = "done" /\ Ascending4(env.given)) =>
        LET g == env.given
            v == args.value
        IN  /\ ret.kind = "return"
            /\ ret.val = "High" <=> v < g[1]
            /\ ret.val = "Good" <=> (g[1] <= v /\ v < g[2])
            /\ ret.val = "Moderate" <=> (g[2] <= v /\ v < g[3])
            /\ ret.val = "Poor" <=> (g[3] <= v /\ v < g[4])
            /\ ret.val = "Bad" <=> v >= g[4]

\* A value equal to the boundary b1 is classified into the worse class.
C1_Witness ==
    /\ pc = "done"
    /\ env.given = <<1, 3, 5, 10>>
    /\ args.value = 3
    /\ ret = Return("Moderate")

\* C2 as stated: a boundary string of fewer or more than four numeric tokens
\* makes get_wfd_class fail with a ValueError, never return a label.
C2_WrongCountRaisesValueError ==
    (pc = "done" /\ Len(env.given) >= 1 /\ Len(env.given) # 4) =>
        ret = Raise("ValueError")

\* C2 amended: the count of tokens is never checked.  For k >= 1 numeric
\* tokens only the first four are looked at: the label at the position of
\* the first of them that exceeds the value is returned; when none exceeds
\* it, the result is 'Bad' for k >= 4 and an IndexError for k < 4.
C2_CountIsNotChecked ==
    (pc = "done" /\ Len(env.given) >= 1) =>
        LET g == env.given
            v == args.value
            n == Min(4, Len(g))
            above == {j \in 1..n : v < g[j]}
        IN  IF above # {}
            THEN \E j \in above :
                    /\ \A i \in above : j <= i
                    /\ ret = Return(class_names[j])
            ELSE IF Len(g) >= 4 THEN ret = Return("Bad")
                 ELSE ret = Raise("IndexError")

\* Three numeric tokens and a value above all of them: an IndexError.
C2_Witness ==
    /\ pc = "done"
    /\ env.given = <<1, 3, 5>>
    /\ args.value = 7
    /\ ret = Raise("IndexError")

(***************************************************************************)
(* DataFrames.                                                             *)
(***************************************************************************)
Range(f) == {f[i] : i \in DOMAIN f}

NoneValue == [none |-> TRUE]

IsFrame(v) == "columns" \in DOMAIN v

DataFrame(cols, rows) == [columns |-> cols, rows |-> rows]

\* DataFrame.empty: any axis of length 0.
DfEmpty(df) == Len(df.columns) = 0 \/ Len(df.rows) = 0

\* df[cols] raises KeyError unless every name is a column.
HasColumns(df, cols) == \A i \in 1..Len(cols) : cols[i] \in Range(df.columns)

DfSelect(df, cols) ==
    DataFrame(cols,
              [i \in 1..Len(df.rows) |-> [c \in Range(cols) |-> df.rows[i][c]]])

\* df[name] = values (one per row): a new column goes last, an existing one
\* keeps its place and gets the new values.
DfAssign(df, name, values) ==
    DataFrame(IF name \in Range(df.columns) THEN df.columns
              ELSE Append(df.columns, name),
              [i \in 1..Len(df.rows) |->
                  [c \in Range(df.columns) \cup {name} |->
                      IF c = name THEN values[i] ELSE df.rows[i][c]]])

\* del df[name]
DfDelete(df, name) ==
    LET cols == SelectSeq(df.columns, LAMBDA c : c # name)
    IN  DataFrame(cols,
                  [i \in 1..Len(df.rows) |-> [c \in Range(cols) |-> df.rows[i][c]]])

\* df.dropna(axis="columns", how="all")
DfDropAllNullColumns(df) ==
    DfSelect(df, SelectSeq(df.columns,
                           LAMBDA c : \E i \in 1..Len(df.rows) : df.rows[i][c] # Null))

\* The columns of pd.concat(frames): the union, in order of first appearance.
RECURSIVE ConcatColumns(_)
ConcatColumns(frames) ==
    IF Len(frames) = 0 THEN <<>>
    ELSE LET before == ConcatColumns(SubSeq(frames, 1, Len(frames) - 1))
             last == frames[Len(frames)].columns
         IN  before \o SelectSeq(last, LAMBDA c : c \notin Range(before))

RECURSIVE ConcatRows(_, _)
ConcatRows(frames, cols) ==
    IF Len(frames) = 0 THEN <<>>
    ELSE LET f == frames[1]
         IN  [i \in 1..Len(f.rows) |->
                 [c \in Range(cols) |->
                     IF c \in Range(f.columns) THEN f.rows[i][c] ELSE Null]]
             \o ConcatRows(Tail(frames), cols)

DfConcat(frames) ==
    DataFrame(ConcatColumns(frames), ConcatRows(frames, ConcatColumns(frames)))

(***************************************************************************)
(* get_data_from_vannnett(wb_id, quality_element)                          *)
(***************************************************************************)
valid_elements == {"ecological", "rbsp", "swchemical"}

element_dict ==
    [ecological |-> "ecological", rbsp |-> "RBSP", swchemical |-> "swChemical"]

\* par_map, in the order the dict literal lists it: <<source path, name>>.
par_map == <<
    <<"qualityElementType.parentId", "category">>,
    <<"qualityElementType.id", "element">>,
    <<"parameterType.text", "parameter">>,
    <<"status.text", "status">>,
    <<"eqr", "eqr">>,
    <<"neqr", "neqr">>,
    <<"value", "value">>,
    <<"threshold.refValue", "reference_value">>,
    <<"threshold.unit", "unit">>,
    <<"threshold.statusLimits", "status_limits">>,
    <<"yearFrom", "year_from">>,
    <<"yearTo", "year_to">>,
    <<"sampleCount", "sample_count">>,
    <<"otherSource", "source">>,
    <<"dataQuality.text", "data_quality">> >>

par_cols == [i \in 1..Len(par_map) |-> par_map[i][1]]

par_values == [i \in 1..Len(par_map) |-> par_map[i][2]]

VnUrl(wb_id, quality_element) ==
    "https://vann-nett.no/service/waterbodies/" \o wb_id
        \o "/qualityElements/" \o quality_element

IsValidElementCaseSensitive(q) == q \in valid_elements

\* quality_element.lower() in valid_elements
IsValidElement(q) == str_lower(q) \in valid_elements

\* Response.raise_for_status(): HTTPError for 4xx and 5xx, nothing otherwise.
RaisesForStatus(status) == 400 <= status /\ status < 600

\* if response.status_code != 200: response.raise_for_status()
StatusCheckRaises(status) == status # 200 /\ RaisesForStatus(status)

RaiseHttp(status) == [kind |-> "raise", exc |-> "HTTPError", status |-> status]

\* A parameter object of the response is a function from the flattened field
\* paths it carries to their values (Null for a JSON null).  The response
\* also carries paths par_map does not mention.
OtherPaths == <<"id">>

AllPaths == par_cols \o OtherPaths

\* pd.json_normalize(list of objects): one row per object, one column per
\* path seen in any object, Null where an object lacks the path.  (The order
\* of the columns is immaterial here: the code selects par_cols next.)
json_normalize(objs) ==
    LET cols == SelectSeq(AllPaths,
                          LAMBDA k : \E i \in 1..Len(objs) : k \in DOMAIN objs[i])
    IN  DataFrame(cols,
                  [i \in 1..Len(objs) |->
                      [c \in Range(cols) |->
                          IF c \in DOMAIN objs[i] THEN objs[i][c] ELSE Null]])

\* .rename(columns=par_map)
RenamePar(df) ==
    LET new(c) == par_map[CHOOSE i \in 1..Len(par_map) : par_map[i][1] = c][2]
    IN  DataFrame([i \in 1..Len(df.columns) |-> new(df.columns[i])],
                  [r \in 1..Len(df.rows) |->
                      [c \in {new(k) : k \in Range(df.columns)} |->
                          df.rows[r][CHOOSE k \in Range(df.columns) : new(k) = c]]])

\* The parameter lists of the response in the order the two nested loops
\* visit them: category by category, element by element.
RECURSIVE ParameterLists(_)
ParameterLists(data) ==
    IF Len(data) = 0 THEN <<>>
    ELSE [j \in 1..Len(data[1].qualityElements) |->
              data[1].qualityElements[j].parameters]
         \o ParameterLists(Tail(data))

\* The body of the inner loop over all parameter lists: df_list, or the
\* KeyError of par_df[par_cols].
RECURSIVE FlattenLists(_, _)
FlattenLists(lists, df_list) ==
    IF Len(lists) = 0 THEN [ok |-> TRUE, df_list |-> df_list]
    ELSE LET par_df == json_normalize(lists[1])
         IN  IF DfEmpty(par_df) THEN FlattenLists(Tail(lists), df_list)
             ELSE IF ~HasColumns(par_df, par_cols)
                  THEN [ok |-> FALSE, df_list |-> df_list]
             ELSE FlattenLists(
                      Tail(lists),
                      Append(df_list,
                             DfDropAllNullColumns(RenamePar(DfSelect(par_df, par_cols)))))

RECURSIVE AddMissingColumns(_, _)
AddMissingColumns(df, names) ==
    IF Len(names) = 0 THEN df
    ELSE AddMissingColumns(
             IF names[1] \in Range(df.columns) THEN df
             ELSE DfAssign(df, names[1], [i \in 1..Len(df.rows) |-> Null]),
             Tail(names))

VnValidate ==
    /\ pc = "vn_validate"
    /\ \/ /\ ~IsValidElement(args.quality_element)
          /\ ret' = Raise("ValueError")
          /\ pc' = "done"
          /\ loc' = loc
       \/ /\ IsValidElement(args.quality_element)
          /\ loc' = [quality_element |-> element_dict[str_lower(args.quality_element)]]
          /\ pc' = "vn_request"
          /\ ret' = ret
    /\ UNCHANGED <<args, env, requests, printed, callerDf>>

\* response = requests.get(url)
VnRequest ==
    /\ pc = "vn_request"
    /\ requests' = Append(requests, VnUrl(args.wb_id, loc.quality_element))
    /\ loc' = [status_code |-> env.status]
    /\ pc' = "vn_status"
    /\ UNCHANGED <<args, env, ret, printed, callerDf>>

\* if response.status_code != 200: response.raise_for_status()
\* data = response.json()
VnStatusAndJson ==
    /\ pc = "vn_status"
    /\ \/ /\ StatusCheckRaises(loc.status_code)
          /\ ret' = RaiseHttp(loc.status_code)
          /\ pc' = "done"
          /\ loc' = loc
       \/ /\ ~StatusCheckRaises(loc.status_code)
          /\ ~env.is_json
          /\ ret' = Raise("JSONDecodeError")
          /\ pc' = "done"
          /\ loc' = loc
       \/ /\ ~StatusCheckRaises(loc.status_code)
          /\ env.is_json
          /\ loc' = [data |-> env.body]
          /\ pc' = "vn_flatten"
          /\ ret' = ret
    /\ UNCHANGED <<args, env, requests, printed, callerDf>>

\* The nested loops that fill df_list.
VnFlatten ==
    /\ pc = "vn_flatten"
    /\ LET res == FlattenLists(ParameterLists(loc.data), <<>>)
       IN  \/ /\ ~res.ok
              /\ ret' = Raise("KeyError")
              /\ pc' = "done"
              /\ loc' = loc
           \/ /\ res.ok
              /\ loc' = [df_list |-> res.df_list]
              /\ pc' = "vn_return"
              /\ ret' = ret
    /\ UNCHANGED <<args, env, requests, printed, callerDf>>

\* if len(df_list) > 0: concat, fill, prefix, order, return df; else None
VnReturn ==
    /\ pc = "vn_return"
    /\ \/ /\ Len(loc.df_list) > 0
          /\ LET df == AddMissingColumns(DfConcat(loc.df_list), par_values)
                 withId == DfAssign(df, "waterbody_id",
                                    [i \in 1..Len(df.rows) |-> args.wb_id])
             IN  ret' = Return(DfSelect(withId, <<"waterbody_id">> \o par_values))
       \/ /\ Len(loc.df_list) = 0
          /\ ret' = Return(NoneValue)
    /\ pc' = "done"
    /\ UNCHANGED <<args, env, loc, requests, printed, callerDf>>

VnNext == VnValidate \/ VnRequest \/ VnStatusAndJson \/ VnFlatten \/ VnReturn

(***************************************************************************)
(* Calls of get_data_from_vannnett and the responses of the server.        *)
(***************************************************************************)
MaxCategories == 2
MaxElements == 2
MaxParameters == 2
MaxObjects == 3

FullObject(v) == [k \in Range(AllPaths) |-> v]

Without(obj, paths) == [k \in DOMAIN obj \ paths |-> obj[k]]

WithNull(obj, paths) == [k \in DOMAIN obj |-> IF k \in paths THEN Null ELSE obj[k]]

\* A complete object, one without the eqr path, one whose neqr is null, and
\* the empty object {}.
ParameterObjects == <<
    FullObject("a"),
    Without(FullObject("b"), {"eqr"}),
    WithNull(FullObject("c"), {"neqr"}),
    Without(FullObject("d"), Range(AllPaths)) >>

ParameterListsOf(n) == UNION {[1..k -> 1..Len(ParameterObjects)] : k \in 0..n}

Element(ps) == [parameters |-> [i \in 1..Len(ps) |-> ParameterObjects[ps[i]]]]

Category(es) == [qualityElements |-> [j \in 1..Len(es) |-> Element(es[j])]]

Sum(f) ==
    LET RECURSIVE upto(_)
        upto(n) == IF n = 0 THEN 0 ELSE f[n] + upto(n - 1)
    IN  upto(Len(f))

ObjectCount(shape) ==
    Sum([c \in 1..Len(shape) |-> Sum([e \in 1..Len(shape[c]) |-> Len(shape[c][e])])])

\* A response body as index lists: categories of elements of parameters.
BodyShapes ==
    LET elementLists == UNION {[1..j -> ParameterListsOf(MaxParameters)] :
                                 j \in 0..MaxElements}
    IN  {shape \in UNION {[1..c -> elementLists] : c \in 0..MaxCategories} :
            ObjectCount(shape) <= MaxObjects}

Body(shape) == [c \in 1..Len(shape) |-> Category(shape[c])]

NotJson == [status |-> 200, is_json |-> FALSE, body |-> <<>>]

JsonResponse(status, shape) == [status |-> status, is_json |-> TRUE, body |-> Body(shape)]

\* quality_element as the caller writes it, with the token the caller means
\* ("invalid" when it is none of the three selectors).
QualityElementInputs == {
    <<"ecological", "ecological">>, <<"Ecological", "ecological">>,
    <<"ECOLOGICAL", "ecological">>,
    <<"rbsp", "RBSP">>, <<"RBSP", "RBSP">>, <<"Rbsp", "RBSP">>,
    <<"swchemical", "swChemical">>, <<"swChemical", "swChemical">>,
    <<"SWCHEMICAL", "swChemical">>,
    <<"chemical", "invalid">>, <<"", "invalid">>, <<"rbsp ", "invalid">>,
    <<"ecological;rbsp", "invalid">> }

StatusCodes == {200, 201, 204, 301, 304, 400, 404, 500, 503}

HttpResponses ==
    {[status |-> st, is_json |-> FALSE, body |-> <<>>] : st \in StatusCodes}
    \cup {JsonResponse(st, shape) :
            st \in StatusCodes,
            shape \in {<<>>, << << <<1>> >> >>, << << <<2>> >> >>}}

BodyResponses ==
    {JsonResponse(200, shape) : shape \in BodyShapes}
    \cup {NotJson, JsonResponse(404, <<>>)}

VnInitWith(inputs, responses) ==
    /\ pc = "vn_validate"
    /\ \E q \in inputs, r \in responses :
          /\ args = [wb_id |-> "002-1120-R", quality_element |-> q[1]]
          /\ env = [status |-> r.status, is_json |-> r.is_json, body |-> r.body,
                    intended |-> q[2]]
    /\ loc = NoLoc
    /\ ret = Pending
    /\ requests = <<>>
    /\ printed = <<>>
    /\ callerDf = NoLoc

VnHttpInit == VnInitWith(QualityElementInputs, HttpResponses)

VnBodyInit ==
    VnInitWith({<<"ecological", "ecological">>, <<"chemical", "invalid">>},
               BodyResponses)

SpecVnHttp == VnHttpInit /\ [][VnNext]_vars

SpecVnBody == VnBodyInit /\ [][VnNext]_vars

\* The parameter objects of the response body in encounter order.
RECURSIVE Flat(_)
Flat(lists) == IF Len(lists) = 0 THEN <<>> ELSE lists[1] \o Flat(Tail(lists))

ResponseObjects == Flat(ParameterLists(env.body))

Answered200 ==
    pc = "done" /\ requests # <<>> /\ env.status = 200 /\ env.is_json

QualityRecordColumns == <<
    "waterbody_id", "category", "element", "parameter", "status", "eqr", "neqr",
    "value", "reference_value", "unit", "status_limits", "year_from", "year_to",
    "sample_count", "source", "data_quality" >>

\* Row `row` of the result is the record of parameter object `obj`.
RowOf(row, obj) ==
    /\ row["waterbody_id"] = args.wb_id
    /\ \A i \in 1..Len(par_map) :
          row[par_map[i][2]] =
              IF par_map[i][1] \in DOMAIN obj THEN obj[par_map[i][1]] ELSE Null

\* C3 as stated: on a successful response in which some parameter objects
\* lack some mapped fields, the call does not fail and returns a table whose
\* columns are waterbody_id and the 15 fields in canonical order, with the
\* absent fields null.
C3_PartialFieldsFullSchema ==
    (/\ Answered200
     /\ \E i \in 1..Len(ResponseObjects) :
           \E k \in Range(par_cols) : k \notin DOMAIN ResponseObjects[i]) =>
        /\ ret.kind = "return"
        /\ IsFrame(ret.val)
        /\ ret.val.columns = QualityRecordColumns
        /\ Len(ret.val.rows) = Len(ResponseObjects)
        /\ \A i \in 1..Len(ResponseObjects) : RowOf(ret.val.rows[i], ResponseObjects[i])

\* C4 as stated: every response whose status is not 200 makes the call fail
\* with an error carrying the status, and its body is never parsed.
C4_Non200AlwaysFails ==
    (requests # <<>> /\ env.status # 200) =>
        /\ pc \notin {"vn_flatten", "vn_return"}
        /\ pc = "done" => ret = RaiseHttp(env.status)

\* C5: a quality_element that lower-cased is not ecological, rbsp or
\* swchemical fails with a ValueError and no request is ever issued; a valid
\* selector in any letter case is requested with its mapped token.
C5_InvalidElementNoRequest ==
    /\ env.intended = "invalid" =>
          /\ requests = <<>>
          /\ pc \in {"vn_validate", "done"}
          /\ pc = "done" => ret = Raise("ValueError")
    /\ env.intended # "invalid" =>
          /\ ret # Raise("ValueError")
          /\ pc = "vn_validate" => requests = <<>>
          /\ pc \notin {"vn_validate", "vn_request"} =>
                requests = <<"https://vann-nett.no/service/waterbodies/"
                               \o args.wb_id \o "/qualityElements/" \o env.intended>>

C5_Witness ==
    /\ pc = "done"
    /\ args.quality_element = "chemical"
    /\ ret = Raise("ValueError")
    /\ requests = <<>>

\* C6 as stated: with zero parameter objects in a successful response the
\* call returns None; with at least one it returns a table with one row per
\* parameter object, in category-then-element encounter order.
C6_NoneOrOneRowPerObject ==
    Answered200 =>
        IF Len(ResponseObjects) = 0
        THEN ret = Return(NoneValue)
        ELSE /\ ret.kind = "return"
             /\ IsFrame(ret.val)
             /\ Len(ret.val.rows) = Len(ResponseObjects)
             /\ \A i \in 1..Len(ResponseObjects) :
                   RowOf(ret.val.rows[i], ResponseObjects[i])

(***************************************************************************)
(* get_teotil2_results_for_regine(st_yr, end_yr, reg_id)                   *)
(***************************************************************************)
\* str(n) of an f-string, for n >= 0.
RECURSIVE str_int(_)
str_int(n) ==
    IF n < 10 THEN Char(DIGITS, n + 1)
    ELSE str_int(n \div 10) \o Char(DIGITS, (n % 10) + 1)

\* i.split("_")[0] == "accum"
IsAccumColumn(name) == str_split(name, "_")[1] = "accum"

AccumColumns(columns) == SelectSeq(columns, IsAccumColumn)

\* df.query(...): the frame of the rows that satisfy the condition, in
\* order; `kept` is that subsequence of df.rows.
DfQuery(df, kept) == DataFrame(df.columns, kept)

ConstantColumn(df, v) == [i \in 1..Len(df.rows) |-> v]

Teotil2Warning(reg_id, year) ==
    "WARNING: No TEOTIL2 results for " \o reg_id \o " in " \o str_int(year) \o "."

MaxYears == 3
MaxCsvRows == 2

Years == 2015..(2015 + MaxYears - 1)

Regines == {"001.A", "002.B"}

\* The columns of a published TEOTIL2 result file.
Teotil2Columns == <<"regine", "accum_n_tonnes", "local_n_tonnes", "accumulated_p">>

\* The file of a year whose rows belong to the catchments rs; the numbers
\* tell the rows of all files apart.
Teotil2Csv(year, rs) ==
    DataFrame(Teotil2Columns,
              [i \in 1..Len(rs) |->
                  [c \in Range(Teotil2Columns) |->
                      IF c = "regine" THEN rs[i] ELSE 10 * (year - 2015) + i]])

NoFile == [missing |-> TRUE]

\* What a year's URL serves: nothing (the fetch fails), or a file with the
\* rows of the catchments rs.
Teotil2Served == {NoFile} \cup {[rs |-> r] : r \in UNION {[1..n -> Regines] : n \in 0..MaxCsvRows}}

Teotil2File(year, served) ==
    IF served = NoFile THEN NoFile ELSE Teotil2Csv(year, served.rs)

\* env.csv[y] is what the URL of year y serves; the years outside the
\* requested range are never fetched.
T2Init ==
    /\ pc = "t2_begin"
    /\ \E st \in Years, en \in Years :
          /\ args = [st_yr |-> st, end_yr |-> en, reg_id |-> "001.A"]
          /\ \E served \in [st..en -> Teotil2Served] :
                env = [csv |-> [y \in Years |->
                                  IF y \in st..en THEN Teotil2File(y, served[y])
                                  ELSE NoFile]]
    /\ loc = NoLoc
    /\ ret = Pending
    /\ requests = <<>>
    /\ printed = <<>>
    /\ callerDf = NoLoc

\* df_list = []; the loop starts at st_yr
T2Begin ==
    /\ pc = "t2_begin"
    /\ loc' = [df_list |-> <<>>, year |-> args.st_yr]
    /\ pc' = "t2_loop"
    /\ UNCHANGED <<args, env, ret, requests, printed, callerDf>>

Teotil2SliceUnfiltered(csv, reg_id, year) ==
    LET withYear == DfAssign(csv, "År", ConstantColumn(csv, year))
    IN  DfSelect(withYear, <<"regine", "År">> \o AccumColumns(withYear.columns))

\* The body of the loop after read_csv: query, År, the accum columns.
Teotil2Slice(csv, reg_id, year) ==
    LET hit == DfQuery(csv, SelectSeq(csv.rows, LAMBDA row : row["regine"] = reg_id))
        withYear == DfAssign(hit, "År", ConstantColumn(hit, year))
    IN  DfSelect(withYear, <<"regine", "År">> \o AccumColumns(withYear.columns))

\* One iteration of `for year in range(st_yr, end_yr + 1)`.
T2Year ==
    /\ pc = "t2_loop"
    /\ loc.year <= args.end_yr
    /\ \/ /\ env.csv[loc.year] = NoFile
          /\ ret' = Raise("HTTPError")
          /\ pc' = "done"
          /\ UNCHANGED <<loc, printed>>
       \/ /\ env.csv[loc.year] # NoFile
          /\ LET df == Teotil2Slice(env.csv[loc.year], args.reg_id, loc.year)
             IN  /\ printed' = IF Len(df.rows) = 0
                               THEN Append(printed, Teotil2Warning(args.reg_id, loc.year))
                               ELSE printed
                 /\ loc' = [df_list |-> Append(loc.df_list, df), year |-> loc.year + 1]
          /\ UNCHANGED <<pc, ret>>
    /\ UNCHANGED <<args, env, requests, callerDf>>

\* df = pd.concat(df_list); return df   (concat of no frames is a ValueError)
T2Concat ==
    /\ pc = "t2_loop"
    /\ loc.year > args.end_yr
    /\ \/ /\ Len(loc.df_list) = 0
          /\ ret' = Raise("ValueError")
       \/ /\ Len(loc.df_list) > 0
          /\ ret' = Return(DfConcat(loc.df_list))
    /\ pc' = "done"
    /\ UNCHANGED <<args, env, loc, requests, printed, callerDf>>

T2Next == T2Begin \/ T2Year \/ T2Concat

SpecTeotil2 == T2Init /\ [][T2Next]_vars

YearText == <<"2015", "2016", "2017", "2018", "2019">>

MatchingRows(year) ==
    Cardinality({i \in 1..Len(env.csv[year].rows) :
                    env.csv[year].rows[i]["regine"] = args.reg_id})

RECURSIVE ExpectedWarnings(_, _)
ExpectedWarnings(from, to) ==
    IF from > to THEN <<>>
    ELSE (IF MatchingRows(from) = 0
          THEN <<"WARNING: No TEOTIL2 results for " \o args.reg_id \o " in "
                   \o YearText[from - 2014] \o ".">>
          ELSE <<>>)
         \o ExpectedWarnings(from + 1, to)

RECURSIVE TotalMatching(_, _)
TotalMatching(from, to) ==
    IF from > to THEN 0 ELSE MatchingRows(from) + TotalMatching(from + 1, to)

AllFilesServed == \A y \in args.st_yr..args.end_yr : env.csv[y] # NoFile

\* C7: for start_year <= end_year the years are processed in ascending
\* order and the result has as many rows as the years of the range have rows
\* of the catchment; a year without such rows adds no row, prints exactly one
\* warning for that year, and the later years are still processed.
C7_RowCountIsSumOverYears ==
    (pc = "done" /\ args.st_yr <= args.end_yr /\ AllFilesServed) =>
        /\ ret.kind = "return"
        /\ Len(ret.val.rows) = TotalMatching(args.st_yr, args.end_yr)
        /\ \A y \in args.st_yr..args.end_yr :
              Cardinality({i \in 1..Len(ret.val.rows) : ret.val.rows[i]["År"] = y})
                  = MatchingRows(y)
        /\ \A i, j \in 1..Len(ret.val.rows) :
              i < j => ret.val.rows[i]["År"] <= ret.val.rows[j]["År"]
        /\ printed = ExpectedWarnings(args.st_yr, args.end_yr)

\* 2015 to 2017 with rows of the catchment in 2015 (two) and 2017 (one) but
\* not in 2016.
C7_Witness ==
    /\ pc = "done"
    /\ args.st_yr = 2015 /\ args.end_yr = 2017
    /\ AllFilesServed
    /\ MatchingRows(2015) = 2 /\ MatchingRows(2016) = 0 /\ MatchingRows(2017) = 1
    /\ ret.kind = "return"
    /\ Len(ret.val.rows) = 3
    /\ printed = <<"WARNING: No TEOTIL2 results for 001.A in 2016.">>

(***************************************************************************)
(* get_teotil3_results_for_regine(st_yr, end_yr, reg_id, agri_loss_model,  *)
(*                                nve_data_yr)                             *)
(***************************************************************************)
Teotil3Path(st_yr, end_yr, agri_loss_model, nve_data_yr) ==
    "/home/jovyan/shared/common/teotil3/evaluation/teo3_results_nve"
        \o str_int(nve_data_yr) \o "_" \o str_int(st_yr) \o "-" \o str_int(end_yr)
        \o "_agri-" \o agri_loss_model \o "-loss.csv"

\* The loop `for col in df.columns` runs over the columns the frame had when
\* the loop started.  The loads are whole thousands of kg, for which the
\* division by 1000 is exact.
RECURSIVE ConvertKgColumns(_, _)
ConvertKgColumns(df, cols) ==
    IF Len(cols) = 0 THEN df
    ELSE IF endswith(cols[1], "_kg")
         THEN LET col == cols[1]
                  new_col == str_replace(col, "_kg", "_tonnes")
                  added == DfAssign(df, new_col,
                                    [i \in 1..Len(df.rows) |-> df.rows[i][col] \div 1000])
              IN  ConvertKgColumns(DfDelete(added, col), Tail(cols))
         ELSE ConvertKgColumns(df, Tail(cols))

MaxT3Rows == 2

\* Columns a TEOTIL3 result file may have besides regine and year.
Teotil3ColumnPool == <<"accum_n_kg", "accum_p_tonnes", "local_n_kg",
                       "accum_kg_n_kg", "accumulated_kg">>

Teotil3ColumnLists ==
    {SelectSeq(Teotil3ColumnPool, LAMBDA c : c \in chosen) :
        chosen \in SUBSET Range(Teotil3ColumnPool)}

Teotil3RowKeys == {<<"001.A", 2015>>, <<"001.A", 2017>>, <<"002.B", 2015>>}

Teotil3Csv(extra, keys) ==
    DataFrame(<<"regine", "year">> \o extra,
              [i \in 1..Len(keys) |->
                  [c \in {"regine", "year"} \cup Range(extra) |->
                      IF c = "regine" THEN keys[i][1]
                      ELSE IF c = "year" THEN keys[i][2]
                      ELSE 1000 * (i + CHOOSE k \in 1..Len(extra) : extra[k] = c)]])

T3Init ==
    /\ pc = "t3_read"
    /\ args = [st_yr |-> 2015, end_yr |-> 2016, reg_id |-> "001.A",
               agri_loss_model |-> "annual", nve_data_yr |-> 2024]
    /\ \/ env = [path |-> "/nowhere", table |-> NoFile]
       \/ \E extra \in Teotil3ColumnLists :
             \E keys \in UNION {[1..n -> Teotil3RowKeys] : n \in 0..MaxT3Rows} :
                env = [path |-> "/home/jovyan/shared/common/teotil3/evaluation/"
                                  \o "teo3_results_nve2024_2015-2016_agri-annual-loss.csv",
                       table |-> Teotil3Csv(extra, keys)]
    /\ loc = NoLoc
    /\ ret = Pending
    /\ requests = <<>>
    /\ printed = <<>>
    /\ callerDf = NoLoc

\* df = pd.read_csv(path)
T3Read ==
    /\ pc = "t3_read"
    /\ \/ /\ Teotil3Path(args.st_yr, args.end_yr, args.agri_loss_model,
                         args.nve_data_yr) # env.path
          /\ ret' = Raise("FileNotFoundError")
          /\ pc' = "done"
          /\ loc' = loc
       \/ /\ Teotil3Path(args.st_yr, args.end_yr, args.agri_loss_model,
                         args.nve_data_yr) = env.path
          /\ loc' = [df |-> env.table]
          /\ pc' = "t3_filter"
          /\ ret' = ret
    /\ UNCHANGED <<args, env, requests, printed, callerDf>>

Teotil3Keep(row) ==
    /\ row["regine"] = args.reg_id
    /\ row["year"] >= args.st_yr
    /\ row["year"] <= args.end_yr

\* query, warning, År, selection of the accum columns
T3Filter ==
    /\ pc = "t3_filter"
    /\ LET hit == DfQuery(loc.df, SelectSeq(loc.df.rows, Teotil3Keep))
           withYear == DfAssign(hit, "År", [i \in 1..Len(hit.rows) |-> hit.rows[i]["year"]])
       IN  /\ printed' = IF Len(hit.rows) = 0
                         THEN Append(printed, "WARNING: No TEOTIL3 results for "
                                                 \o args.reg_id \o ".")
                         ELSE printed
           /\ loc' = [df |-> DfSelect(withYear, <<"regine", "År">>
                                                   \o AccumColumns(withYear.columns))]
    /\ pc' = "t3_convert"
    /\ UNCHANGED <<args, env, ret, requests, callerDf>>

\* the kg -> tonnes loop, and return df
T3Convert ==
    /\ pc = "t3_convert"
    /\ ret' = Return(ConvertKgColumns(loc.df, loc.df.columns))
    /\ pc' = "done"
    /\ UNCHANGED <<args, env, loc, requests, printed, callerDf>>

T3Next == T3Read \/ T3Filter \/ T3Convert

SpecTeotil3 == T3Init /\ [][T3Next]_vars

\* The rows of the source table the query keeps, in order.
Teotil3Kept == SelectSeq(env.table.rows, Teotil3Keep)

\* C8 as stated: every selected accum_* column whose name ends in _kg comes
\* back under the same name with the _kg suffix turned into _tonnes, holding
\* the source value divided by 1000 in every row; no returned column name
\* ends in _kg; regine and År are the first two columns.
C8_KgSuffixBecomesTonnes ==
    (pc = "done" /\ env.table # NoFile) =>
        /\ ret.kind = "return"
        /\ Len(ret.val.rows) = Len(Teotil3Kept)
        /\ SubSeq(ret.val.columns, 1, 2) = <<"regine", "År">>
        /\ \A c \in Range(ret.val.columns) : ~endswith(c, "_kg")
        /\ \A c \in Range(env.table.columns) :
              (Len(c) > 6 /\ SubSeq(c, 1, 6) = "accum_" /\ endswith(c, "_kg")) =>
                  LET t == SubSeq(c, 1, Len(c) - 3) \o "_tonnes"
                  IN  /\ t \in Range(ret.val.columns)
                      /\ \A i \in 1..Len(Teotil3Kept) :
                            1000 * ret.val.rows[i][t] = Teotil3Kept[i][c]

(***************************************************************************)
(* get_aggregation_dict_for_columns(par, model) and                        *)
(* aggregate_parameters(df, par, model)                                    *)
(***************************************************************************)
\* The dict literal of each branch, in order: <<heading, columns>>.
agg_dict_teotil2(par) == <<
    <<"Akvakultur", <<"accum_aqu_tot-" \o par \o "_tonnes">> >>,
    <<"Jordbruk", <<"accum_agri_diff_tot-" \o par \o "_tonnes",
                    "accum_agri_pt_tot-" \o par \o "_tonnes">> >>,
    <<"Avløp", <<"accum_ren_tot-" \o par \o "_tonnes",
                 "accum_spr_tot-" \o par \o "_tonnes">> >>,
    <<"Industri", <<"accum_ind_tot-" \o par \o "_tonnes">> >>,
    <<"Bebygd", <<"accum_urban_tot-" \o par \o "_tonnes">> >>,
    <<"Bakgrunn", <<"accum_nat_diff_tot-" \o par \o "_tonnes">> >> >>

agg_dict_teotil3(par) == <<
    <<"Akvakultur", <<"accum_aquaculture_tot" \o par \o "_tonnes">> >>,
    <<"Jordbruk", <<"accum_agriculture_tot" \o par \o "_tonnes">> >>,
    <<"Avløp", <<"accum_large-wastewater_tot" \o par \o "_tonnes",
                 "accum_spredt_tot" \o par \o "_tonnes">> >>,
    <<"Industri", <<"accum_industry_tot" \o par \o "_tonnes">> >>,
    <<"Bebygd", <<"accum_urban_tot" \o par \o "_tonnes">> >>,
    <<"Bakgrunn", <<"accum_agriculture-background_tot" \o par \o "_tonnes",
                    "accum_upland_tot" \o par \o "_tonnes",
                    "accum_wood_tot" \o par \o "_tonnes",
                    "accum_lake_tot" \o par \o "_tonnes">> >> >>

\* The two asserts.
AggArgsValid(par, model) == par \in {"n", "p"} /\ model \in {"teotil2", "teotil3"}

get_aggregation_dict_for_columns(par, model) ==
    IF model = "teotil2" THEN agg_dict_teotil2(par) ELSE agg_dict_teotil3(par)

RowSumFirstOnly(row, cols) == row[cols[1]]

\* df[cols].sum(axis=1) for one row.
RowSum(row, cols) == Sum([k \in 1..Len(cols) |-> row[cols[k]]])

SetItemOnCopy(df, name, values) == df

\* df[group] = ... where df is still the object the caller passed in.
SetItemInPlace(df, name, values) == DfAssign(df, name, values)

MaxAggRows == 2
MaxScale == 2

\* The calls: the four valid selector pairs and two invalid ones.
AggCalls == {<<"n", "teotil2">>, <<"p", "teotil2">>, <<"n", "teotil3">>,
             <<"p", "teotil3">>, <<"x", "teotil2">>, <<"n", "teotil4">>}

RECURSIVE MappedColumns(_)
MappedColumns(dict) ==
    IF Len(dict) = 0 THEN <<>> ELSE dict[1][2] \o MappedColumns(Tail(dict))

\* The table a caller holds for a call: regine, År and the columns the
\* mapping of the call lists (those of n / teotil2 for an invalid call),
\* possibly with one column missing and possibly with one more column.
AggTableColumns(call, dropped, extra) ==
    LET dict == IF AggArgsValid(call[1], call[2])
                THEN get_aggregation_dict_for_columns(call[1], call[2])
                ELSE agg_dict_teotil2("n")
        full == <<"regine", "År">> \o MappedColumns(dict) \o extra
    IN  SelectSeq(full, LAMBDA c : c \notin dropped)

\* Row i of scale s holds s * 2^k in its k-th column, so that every set of
\* columns has a sum of its own.
AggTable(columns, scales) ==
    DataFrame(columns,
              [i \in 1..Len(scales) |->
                  [c \in Range(columns) |->
                      IF c = "regine" THEN "001.A"
                      ELSE IF c = "År" THEN 2014 + i
                      ELSE scales[i] * 2^(CHOOSE k \in 1..Len(columns) : columns[k] = c)]])

AggInit ==
    /\ pc = "agg_dict"
    /\ \E call \in AggCalls :
          \E extra \in {<<>>, <<"local_x_tonnes">>, <<"Bebygd">>} :
             \E dropped \in {{}} \cup {{c} : c \in Range(AggTableColumns(call, {}, <<>>))} :
                \E scales \in UNION {[1..n -> 1..MaxScale] : n \in 0..MaxAggRows} :
                   /\ args = [df |-> AggTable(AggTableColumns(call, dropped, extra), scales),
                              par |-> call[1], model |-> call[2]]
                   /\ callerDf = args.df
    /\ env = NoLoc
    /\ loc = NoLoc
    /\ ret = Pending
    /\ requests = <<>>
    /\ printed = <<>>

\* agg_dict = get_aggregation_dict_for_columns(par, model=model)
AggLookup ==
    /\ pc = "agg_dict"
    /\ \/ /\ ~AggArgsValid(args.par, args.model)
          /\ ret' = Raise("AssertionError")
          /\ pc' = "done"
          /\ loc' = loc
       \/ /\ AggArgsValid(args.par, args.model)
          /\ loc' = [agg_dict |-> get_aggregation_dict_for_columns(args.par, args.model),
                     next |-> 1]
          /\ pc' = "agg_loop"
          /\ ret' = ret
    /\ UNCHANGED <<args, env, requests, printed, callerDf>>

\* One iteration of `for group, cols in agg_dict.items()`.
AggGroup ==
    /\ pc = "agg_loop"
    /\ loc.next <= Len(loc.agg_dict)
    /\ LET group == loc.agg_dict[loc.next][1]
           cols == loc.agg_dict[loc.next][2]
       IN  \/ /\ ~HasColumns(callerDf, cols)
              /\ ret' = Raise("KeyError")
              /\ pc' = "done"
              /\ UNCHANGED <<loc, callerDf>>
           \/ /\ HasColumns(callerDf, cols)
              /\ callerDf' = SetItemInPlace(
                                 callerDf, group,
                                 [i \in 1..Len(callerDf.rows) |->
                                     RowSum(callerDf.rows[i], cols)])
              /\ loc' = [loc EXCEPT !.next = @ + 1]
              /\ UNCHANGED <<pc, ret>>
    /\ UNCHANGED <<args, env, requests, printed>>

\* df = df[["regine", "År"] + list(agg_dict.keys())]; return df
AggSelect ==
    /\ pc = "agg_loop"
    /\ loc.next > Len(loc.agg_dict)
    /\ LET out == <<"regine", "År">>
                    \o [k \in 1..Len(loc.agg_dict) |-> loc.agg_dict[k][1]]
       IN  \/ /\ ~HasColumns(callerDf, out)
              /\ ret' = Raise("KeyError")
           \/ /\ HasColumns(callerDf, out)
              /\ ret' = Return(DfSelect(callerDf, out))
    /\ pc' = "done"
    /\ UNCHANGED <<args, env, loc, requests, printed, callerDf>>

AggNext == AggLookup \/ AggGroup \/ AggSelect

SpecAggregate == AggInit /\ [][AggNext]_vars

Categories == <<"Akvakultur", "Jordbruk", "Avløp", "Industri", "Bebygd", "Bakgrunn">>

\* The mapping of the call, as the function from a heading to its columns.
MappingOf(category) ==
    LET dict == get_aggregation_dict_for_columns(args.par, args.model)
    IN  dict[CHOOSE k \in 1..Len(dict) : dict[k][1] = category][2]

HasAllOf(cols) == \A k \in 1..Len(cols) : cols[k] \in Range(args.df.columns)

RECURSIVE Total(_, _)
Total(row, cols) ==
    IF Len(cols) = 0 THEN 0 ELSE row[cols[1]] + Total(row, Tail(cols))

\* C9: for pollutant n or p and model teotil2 or teotil3 and a table with
\* regine, År and every mapped column, the result has exactly the columns
\* regine, År, Akvakultur, Jordbruk, Avløp, Industri, Bebygd, Bakgrunn in
\* that order and the rows of the input, each category being the sum of the
\* row's values in the columns mapped to it.
C9_AggregatedColumnsAndSums ==
    (/\ pc = "done"
     /\ AggArgsValid(args.par, args.model)
     /\ HasAllOf(<<"regine", "År">>)
     /\ \A k \in 1..Len(Categories) : HasAllOf(MappingOf(Categories[k]))) =>
        /\ ret.kind = "return"
        /\ ret.val.columns = <<"regine", "År">> \o Categories
        /\ Len(ret.val.rows) = Len(args.df.rows)
        /\ \A i \in 1..Len(args.df.rows) :
              /\ ret.val.rows[i]["regine"] = args.df.rows[i]["regine"]
              /\ ret.val.rows[i]["År"] = args.df.rows[i]["År"]
              /\ \A k \in 1..Len(Categories) :
                    ret.val.rows[i][Categories[k]]
                        = Total(args.df.rows[i], MappingOf(Categories[k]))

\* A teotil3 table of two rows: Bakgrunn sums four columns.
C9_Witness ==
    /\ pc = "done"
    /\ args.model = "teotil3"
    /\ args.par = "p"
    /\ ret.kind = "return"
    /\ Len(ret.val.rows) = 2
    /\ ret.val.rows[2]["Bakgrunn"]
          = args.df.rows[2]["accum_agriculture-background_totp_tonnes"]
            + args.df.rows[2]["accum_upland_totp_tonnes"]
            + args.df.rows[2]["accum_wood_totp_tonnes"]
            + args.df.rows[2]["accum_lake_totp_tonnes"]
    /\ ret.val.rows[2]["Bakgrunn"] > ret.val.rows[2]["Akvakultur"]

RECURSIVE Assigned(_)
Assigned(k) ==
    IF k > Len(Categories) \/ ~HasAllOf(MappingOf(Categories[k])) THEN 0
    ELSE 1 + Assigned(k + 1)

====
